---- MODULE Spec2Model ----
(***************************************************************************)
(* Model of the wordgames client (src/src/main.rs): the websocket worker   *)
(* thread spawned by connect, the three mpsc channels between it and the   *)
(* egui consumer, and the consumer's handlers (update,                     *)
(* ws_result_received, the button and text-field handlers).                *)
(*                                                                         *)
(* std::sync::mpsc semantics used throughout:                              *)
(*   - Sender::send fails (and enqueues nothing) iff the Receiver has      *)
(*     been dropped;                                                       *)
(*   - Receiver::try_recv returns a queued item even after every Sender    *)
(*     has been dropped;                                                   *)
(*   - dropping a Receiver discards what is still queued.                  *)
(* The worker owns send_message_rx, shutdown_rx, recv_message_tx and the   *)
(* socket; it drops them when its closure returns.  The consumer owns the  *)
(* tuple (send_message_tx, recv_message_rx, shutdown_tx) in                *)
(* WordgamesClient.websocket and drops all three when the field is set to  *)
(* None.                                                                   *)
(*                                                                         *)
(* utils.rs repeats connect as get_websocket_connection with the same loop *)
(* and a repaint threshold of 2; main.rs declares no `mod utils`, so the   *)
(* program only ever runs the loop of connect, which is the one modelled.  *)
(***************************************************************************)
EXTENDS Integers, Sequences, FiniteSets, TLC

\* ------------------------------------------------------------------ bounds
MaxConn == 2        \* connections opened in one run of the whole program
MaxSends == 1       \* texts accepted by send in one run of the whole program
MaxFrames == 1      \* frames the server delivers in one run of the whole program
SessionSends == 2   \* texts accepted by send in a run with a single connection
SessionFrames == 2  \* frames the server delivers in a run with a single connection
MaxErrs == 1        \* error entries beyond which connect and send errors are not explored
MaxTimeLen == 2     \* characters of a timestamp text
MaxNow == 12        \* instants the clock runs through

\* ------------------------------------------------------- program constants
RepaintEvery == 3      \* repaint UI every 3rd iteration

GuideInitial == ""
GuideWaiting == "Waiting Round Start!"
GuideTimesUp == "Time's up! The answer is:"
GuideGuess == "Please guess:"
ParseErrorText == "Error parsing message"

\* ------------------------------------------------------------- option type
None == <<>>
Some(v) == <<v>>
IsSome(o) == o # <<>>

\* ---------------------------------------------------------------- helpers
ConnIds == 1..MaxConn
NoConn == 0

IsPrefix(s, t) ==
    /\ Len(s) <= Len(t)
    /\ \A i \in 1..Len(s) : s[i] = t[i]

RECURSIVE CountErr(_)
CountErr(s) ==
    IF s = <<>> THEN 0
    ELSE (IF Head(s)[1] = "Err" THEN 1 ELSE 0) + CountErr(Tail(s))

RECURSIVE OkItems(_)
OkItems(s) ==
    IF s = <<>> THEN <<>>
    ELSE IF Head(s)[1] = "Ok" THEN <<Head(s)[2]>> \o OkItems(Tail(s))
         ELSE OkItems(Tail(s))

RemoveAt(s, idx) == [i \in 1..(Len(s) - 1) |-> IF i < idx THEN s[i] ELSE s[i + 1]]

\* ------------------------------------------------------ wire-level values
\* A timestamp text is a short string; characters 0..9 are digits and
\* NonDigit is any other character.
NonDigit == 10
TimeChars == {1, NonDigit}
TimeTexts == UNION {[1..n -> TimeChars] : n \in 0..MaxTimeLen}

RECURSIVE DigitsValue(_)
DigitsValue(s) ==
    IF s = <<>> THEN 0
    ELSE 10 * DigitsValue(SubSeq(s, 1, Len(s) - 1)) + s[Len(s)]

\* OffsetDateTime::parse(text, &Iso8601::DEFAULT).ok(): Some(instant) for a
\* well-formed text, None for anything else.
ParseOffsetDateTime(text) ==
    IF text # <<>> /\ \A i \in 1..Len(text) : text[i] < NonDigit
    THEN Some(DigitsValue(text))
    ELSE None

Words == {"APPLE", "PEAR"}
Tags == {"ChatMessage", "OngoingRoundInfo", "FinishedRoundInfo", "FinishedGame", "Unknown"}

\* The "content" member of a frame: JSON null, a JSON string, or a JSON
\* object.  An object is described by which pair of keys it carries
\* ("ongoing": word_to_guess + round_finish_time, "finished": word_answer +
\* to_next_round_time, "partial": a required key is missing) and by the two
\* string values.
Contents ==
    {<<"null">>}
    \cup {<<"string", w>> : w \in Words}
    \cup {<<"object", k, w, t>> : k \in {"ongoing", "finished", "partial"},
                                  w \in Words, t \in TimeTexts}

Frames == {<<tag, c>> : tag \in Tags, c \in Contents}

\* serde_json::from_str::<ServerMessage>(&message), adjacently tagged
\* (tag = "type", content = "content"): Some(variant) or None on any error.
from_str(frame) ==
    LET tag == frame[1]
        c == frame[2]
    IN  CASE tag = "ChatMessage" /\ c[1] = "string" ->
               Some(<<"ChatMessage", c[2]>>)
          [] tag = "OngoingRoundInfo" /\ c[1] = "object" /\ c[2] = "ongoing" ->
               Some(<<"OngoingRoundInfo", c[3], c[4]>>)
          [] tag = "FinishedRoundInfo" /\ c[1] = "object" /\ c[2] = "finished" ->
               Some(<<"FinishedRoundInfo", c[3], c[4]>>)
          [] tag = "FinishedGame" /\ c[1] = "null" ->
               Some(<<"FinishedGame">>)
          [] OTHER -> None

\* ... .unwrap_or_else(|_| ServerMessage::ChatMessage("Error parsing message"))
ServerMessage(frame) ==
    IF IsSome(from_str(frame)) THEN from_str(frame)[1]
    ELSE <<"ChatMessage", ParseErrorText>>

\* remaining that shows zero once the deadline has passed.
remaining_clamped(self, instant) ==
    IF IsSome(self.timer_finish_time)
    THEN Some(IF self.timer_finish_time[1] - instant < 0 THEN 0
              ELSE self.timer_finish_time[1] - instant)
    ELSE None

\* self.timer_finish_time.map_or(String::new(), |time| format!("{:.1} seconds",
\*     (time - OffsetDateTime::now_utc()).as_seconds_f32()))
\* None is the empty text; Some(d) is the text of the duration d, which may
\* be negative.  Durations are whole seconds here, which as_seconds_f32 and
\* the one-decimal format represent exactly.
remaining(self, instant) ==
    IF IsSome(self.timer_finish_time)
    THEN Some(self.timer_finish_time[1] - instant)
    ELSE None

\* ws_result_received whose FinishedGame arm forgets to clear word_box.
ws_result_received_keep_word(self, result) ==
    IF result[1] = "Ok"
    THEN LET m == ServerMessage(result[2])
         IN  CASE m[1] = "ChatMessage" ->
                    [self EXCEPT !.messages = Append(@, m[2])]
               [] m[1] = "FinishedGame" ->
                    [self EXCEPT !.timer_finish_time = None,
                                 !.word_box_guide = GuideWaiting]
               [] m[1] = "FinishedRoundInfo" ->
                    [self EXCEPT !.timer_finish_time = ParseOffsetDateTime(m[3]),
                                 !.word_box_guide = GuideTimesUp,
                                 !.word_box = m[2]]
               [] m[1] = "OngoingRoundInfo" ->
                    [self EXCEPT !.timer_finish_time = ParseOffsetDateTime(m[3]),
                                 !.word_box_guide = GuideGuess,
                                 !.word_box = m[2]]
    ELSE [self EXCEPT !.err_texts = Append(@, result[2])]

\* WordgamesClient::ws_result_received, on the fields of the client other
\* than websocket.  result is <<"Ok", frame>> or <<"Err", text>>.
ws_result_received(self, result) ==
    IF result[1] = "Ok"
    THEN LET m == ServerMessage(result[2])
         IN  CASE m[1] = "ChatMessage" ->
                    [self EXCEPT !.messages = Append(@, m[2])]
               [] m[1] = "FinishedGame" ->
                    [self EXCEPT !.timer_finish_time = None,
                                 !.word_box_guide = GuideWaiting,
                                 !.word_box = ""]
               [] m[1] = "FinishedRoundInfo" ->
                    [self EXCEPT !.timer_finish_time = ParseOffsetDateTime(m[3]),
                                 !.word_box_guide = GuideTimesUp,
                                 !.word_box = m[2]]
               [] m[1] = "OngoingRoundInfo" ->
                    [self EXCEPT !.timer_finish_time = ParseOffsetDateTime(m[3]),
                                 !.word_box_guide = GuideGuess,
                                 !.word_box = m[2]]
    ELSE [self EXCEPT !.err_texts = Append(@, result[2])]



\* ------------------------------------------------------------------ state
VARIABLES
    websocket,        \* WordgamesClient.websocket: NoConn (None) or the held connection
    client,           \* the other WordgamesClient fields that the handlers change
    pc,               \* per connection: position of its worker thread
    repaint_counter,  \* per connection: the worker's repaint_counter
    send_message,     \* per connection: queue of the send_message channel
    recv_message,     \* per connection: queue of the recv_message channel
    shutdown,         \* per connection: number of () items queued on the shutdown channel
    repaint,          \* a repaint of the egui context has been requested and not yet served
    accepted,         \* history: texts for which sender.send returned Ok
    written,          \* history: text frames socket.send wrote
    frames,           \* history: frames socket.read returned
    enqueued,         \* history: items recv_message_tx.send put on the channel
    polled,           \* history: items receiver.try_recv handed to update
    observed,         \* history: the worker's shutdown_rx.try_recv returned Ok
    post_writes,      \* history: socket.send calls made after disconnect (saturates at 2)
    post_reads,       \* history: socket.read calls made after disconnect (saturates at 2)
    now,              \* the clock: what OffsetDateTime::now_utc() returns
    timer_label       \* the remaining time shown by the timer label drawn last

chans == <<send_message, recv_message, shutdown>>
hist == <<accepted, written, frames, enqueued, polled, observed, post_writes, post_reads>>
worker == <<pc, repaint_counter>>
clock == <<now, timer_label>>
vars == <<websocket, client, worker, chans, repaint, hist, clock>>

\* Frames the server sends in the runs of the whole program: one that
\* cannot be decoded and one that starts a round.
WireFrames ==
    { <<"Unknown", <<"null">>>>,
      <<"OngoingRoundInfo", <<"object", "ongoing", "APPLE", <<1, 1>>>>>> }

\* Texts the user submits.
Texts == {"hello", "bye"}

\* WordgamesClient::default()
DefaultClient ==
    [ err_texts |-> <<>>, messages |-> <<>>, timer_finish_time |-> None,
      word_box_guide |-> GuideInitial, word_box |-> "" ]

Init ==
    /\ websocket = NoConn
    /\ client = DefaultClient
    /\ pc = [c \in ConnIds |-> "none"]
    /\ repaint_counter = [c \in ConnIds |-> 0]
    /\ send_message = [c \in ConnIds |-> <<>>]
    /\ recv_message = [c \in ConnIds |-> <<>>]
    /\ shutdown = [c \in ConnIds |-> 0]
    /\ repaint = FALSE
    /\ accepted = [c \in ConnIds |-> <<>>]
    /\ written = [c \in ConnIds |-> <<>>]
    /\ frames = [c \in ConnIds |-> <<>>]
    /\ enqueued = [c \in ConnIds |-> <<>>]
    /\ polled = [c \in ConnIds |-> <<>>]
    /\ observed = [c \in ConnIds |-> FALSE]
    /\ post_writes = [c \in ConnIds |-> 0]
    /\ post_reads = [c \in ConnIds |-> 0]
    /\ now = 0
    /\ timer_label = None

\* The worker of c has been spawned and its closure has not returned: it
\* still owns send_message_rx, shutdown_rx, recv_message_tx and the socket.
Running(c) == pc[c] \notin {"none", "done"}
Created(c) == pc[c] # "none"
\* disconnect_button_clicked has run for c.
Disconnected(c) == Created(c) /\ websocket # c

RECURSIVE TotalLen(_, _)
TotalLen(f, n) == IF n = 0 THEN 0 ELSE Len(f[n]) + TotalLen(f, n - 1)

Bump(n) == IF n < 2 THEN n + 1 ELSE n

\* RecvMessageTxSend over one inbound channel shared by all connections: the
\* item reaches whichever connection the consumer holds.
RecvMessageTxSend_shared(c, item) ==
    IF websocket # NoConn
    THEN /\ recv_message' = [recv_message EXCEPT ![websocket] = Append(@, item)]
         /\ enqueued' = [enqueued EXCEPT ![websocket] = Append(@, item)]
    ELSE UNCHANGED <<recv_message, enqueued>>

\* recv_message_tx.send(item) with its result ignored (let _ =): the item is
\* queued iff the consumer still owns recv_message_rx.
RecvMessageTxSend(c, item) ==
    IF websocket = c
    THEN /\ recv_message' = [recv_message EXCEPT ![c] = Append(@, item)]
         /\ enqueued' = [enqueued EXCEPT ![c] = Append(@, item)]
    ELSE UNCHANGED <<recv_message, enqueued>>

\* The worker's closure returns: send_message_rx and shutdown_rx are dropped
\* with what they still hold, and repaint_counter ceases to exist.
WorkerDrops(c) ==
    /\ send_message' = [send_message EXCEPT ![c] = <<>>]
    /\ shutdown' = [shutdown EXCEPT ![c] = 0]
    /\ repaint_counter' = [repaint_counter EXCEPT ![c] = 0]

\* ------------------------------------------------------------ worker thread
\* One action per step of the loop in the closure spawned by connect.  A
\* step that only touches what the thread owns is merged into its neighbour.

\* worker_check_shutdown with the break missing: the signal is taken off the
\* channel and the iteration goes on.
worker_check_shutdown_no_break(c) ==
    /\ pc[c] = "check"
    /\ IF shutdown[c] > 0
       THEN /\ observed' = [observed EXCEPT ![c] = TRUE]
            /\ shutdown' = [shutdown EXCEPT ![c] = @ - 1]
       ELSE UNCHANGED <<shutdown, observed>>
    /\ pc' = [pc EXCEPT ![c] = "write"]
    /\ UNCHANGED <<websocket, client, clock, send_message, repaint_counter, recv_message, repaint,
                   accepted, written, frames, enqueued, polled, post_writes, post_reads>>

\* if shutdown_rx.try_recv().is_ok() { break; }
\* After the break the closure returns.  The signal is only ever sent by
\* disconnect_button_clicked, which drops the consumer's three endpoints in
\* the same call, so nothing can observe the time between break and return.
worker_check_shutdown(c) ==
    /\ pc[c] = "check"
    /\ IF shutdown[c] > 0
       THEN /\ observed' = [observed EXCEPT ![c] = TRUE]
            /\ pc' = [pc EXCEPT ![c] = "done"]
            /\ WorkerDrops(c)
       ELSE /\ pc' = [pc EXCEPT ![c] = "write"]
            /\ UNCHANGED <<shutdown, observed, send_message, repaint_counter>>
    /\ UNCHANGED <<websocket, client, clock, recv_message, repaint, accepted, written, frames,
                   enqueued, polled, post_writes, post_reads>>

\* worker_send that empties the send channel in one iteration (while let
\* instead of if let), every write succeeding or the first one failing.
worker_send_drain(c, ok) ==
    /\ pc[c] = "write"
    /\ IF send_message[c] = <<>>
       THEN /\ pc' = [pc EXCEPT ![c] = "read"]
            /\ UNCHANGED <<send_message, recv_message, written, enqueued, post_writes>>
       ELSE /\ post_writes' = [post_writes EXCEPT ![c] = IF Disconnected(c) THEN Bump(@) ELSE @]
            /\ IF ok
               THEN /\ written' = [written EXCEPT ![c] = @ \o send_message[c]]
                    /\ send_message' = [send_message EXCEPT ![c] = <<>>]
                    /\ pc' = [pc EXCEPT ![c] = "read"]
                    /\ UNCHANGED <<recv_message, enqueued>>
               ELSE /\ send_message' = [send_message EXCEPT ![c] = Tail(@)]
                    /\ RecvMessageTxSend(c, <<"Err", "write failed">>)
                    /\ pc' = [pc EXCEPT ![c] = "notify_break"]
                    /\ UNCHANGED written
    /\ UNCHANGED <<websocket, client, clock, repaint_counter, shutdown, repaint,
                   accepted, frames, polled, observed, post_reads>>

\* worker_send that looks at the oldest queued text without taking it off
\* the channel when the write succeeds.
worker_send_peek(c, ok) ==
    /\ pc[c] = "write"
    /\ IF send_message[c] = <<>>
       THEN /\ pc' = [pc EXCEPT ![c] = "read"]
            /\ UNCHANGED <<send_message, recv_message, written, enqueued, post_writes>>
       ELSE /\ post_writes' = [post_writes EXCEPT ![c] = IF Disconnected(c) THEN Bump(@) ELSE @]
            /\ IF ok
               THEN /\ written' = [written EXCEPT ![c] = Append(@, Head(send_message[c]))]
                    /\ pc' = [pc EXCEPT ![c] = "read"]
                    /\ UNCHANGED <<send_message, recv_message, enqueued>>
               ELSE /\ send_message' = [send_message EXCEPT ![c] = Tail(@)]
                    /\ RecvMessageTxSend(c, <<"Err", "write failed">>)
                    /\ pc' = [pc EXCEPT ![c] = "notify_break"]
                    /\ UNCHANGED written
    /\ UNCHANGED <<websocket, client, clock, repaint_counter, shutdown, repaint,
                   accepted, frames, polled, observed, post_reads>>

\* if let Ok(message) = send_message_rx.try_recv() {
\*     if let Err(err) = socket.send(Text(message)) {
\*         let _ = recv_message_tx.send(Err(err.to_string())); ...
\* ok: whether socket.send succeeds.
worker_send(c, ok) ==
    /\ pc[c] = "write"
    /\ IF send_message[c] = <<>>
       THEN /\ pc' = [pc EXCEPT ![c] = "read"]
            /\ UNCHANGED <<send_message, recv_message, written, enqueued, post_writes>>
       ELSE /\ send_message' = [send_message EXCEPT ![c] = Tail(@)]
            /\ post_writes' = [post_writes EXCEPT ![c] = IF Disconnected(c) THEN Bump(@) ELSE @]
            /\ IF ok
               THEN /\ written' = [written EXCEPT ![c] = Append(@, Head(send_message[c]))]
                    /\ pc' = [pc EXCEPT ![c] = "read"]
                    /\ UNCHANGED <<recv_message, enqueued>>
               ELSE /\ RecvMessageTxSend(c, <<"Err", "write failed">>)
                    /\ pc' = [pc EXCEPT ![c] = "notify_break"]
                    /\ UNCHANGED written
    /\ UNCHANGED <<websocket, client, clock, repaint_counter, shutdown, repaint,
                   accepted, frames, polled, observed, post_reads>>

\* worker_read with the break missing in the last arm: a read error is
\* queued and the loop goes on.
worker_read_no_break(c, outcome) ==
    /\ pc[c] = "read"
    /\ post_reads' = [post_reads EXCEPT ![c] = IF Disconnected(c) THEN Bump(@) ELSE @]
    /\ CASE outcome[1] = "Ok" ->
              /\ frames' = [frames EXCEPT ![c] = Append(@, outcome[2])]
              /\ RecvMessageTxSend(c, <<"Ok", outcome[2]>>)
              /\ pc' = [pc EXCEPT ![c] = "notify"]
         [] outcome[1] = "WouldBlock" ->
              /\ pc' = [pc EXCEPT ![c] = "sleep"]
              /\ UNCHANGED <<frames, recv_message, enqueued>>
         [] outcome[1] = "Err" ->
              /\ RecvMessageTxSend(c, <<"Err", "read failed">>)
              /\ pc' = [pc EXCEPT ![c] = "notify"]
              /\ UNCHANGED frames
    /\ UNCHANGED <<websocket, client, clock, repaint_counter, send_message,
                   shutdown, repaint, accepted, written, polled, observed, post_writes>>

\* match socket.read() { Ok(message) => ..., Err(Io(WouldBlock)) => {}, Err(err) => ... }
\* outcome: <<"Ok", frame>>, <<"WouldBlock">> or <<"Err">>.
worker_read(c, outcome) ==
    /\ pc[c] = "read"
    /\ post_reads' = [post_reads EXCEPT ![c] = IF Disconnected(c) THEN Bump(@) ELSE @]
    /\ CASE outcome[1] = "Ok" ->
              /\ frames' = [frames EXCEPT ![c] = Append(@, outcome[2])]
              /\ RecvMessageTxSend(c, <<"Ok", outcome[2]>>)
              /\ pc' = [pc EXCEPT ![c] = "notify"]
         [] outcome[1] = "WouldBlock" ->
              /\ pc' = [pc EXCEPT ![c] = "sleep"]
              /\ UNCHANGED <<frames, recv_message, enqueued>>
         [] outcome[1] = "Err" ->
              /\ RecvMessageTxSend(c, <<"Err", "read failed">>)
              /\ pc' = [pc EXCEPT ![c] = "notify_break"]
              /\ UNCHANGED frames
    /\ UNCHANGED <<websocket, client, clock, repaint_counter, send_message,
                   shutdown, repaint, accepted, written, polled, observed, post_writes>>

\* worker_request_repaint left to the throttled repaint at the end of the
\* iteration: nothing is requested for the frame just queued.
worker_request_repaint_throttled(c) ==
    /\ pc[c] = "notify"
    /\ pc' = [pc EXCEPT ![c] = "sleep"]
    /\ UNCHANGED <<websocket, client, clock, repaint, repaint_counter, chans, hist>>

\* ctx.request_repaint() after a frame was queued; the loop goes on.
worker_request_repaint(c) ==
    /\ pc[c] = "notify"
    /\ repaint' = TRUE
    /\ pc' = [pc EXCEPT ![c] = "sleep"]
    /\ UNCHANGED <<websocket, client, clock, repaint_counter, chans, hist>>

\* ctx.request_repaint(); break;  after an error was queued, and the return
\* of the closure that follows the break.
worker_request_repaint_break(c) ==
    /\ pc[c] = "notify_break"
    /\ repaint' = TRUE
    /\ pc' = [pc EXCEPT ![c] = "done"]
    /\ WorkerDrops(c)
    /\ UNCHANGED <<websocket, client, clock, recv_message, hist>>

\* worker_sleep of a loop whose shutdown check sits before the loop instead
\* of inside it: the next iteration starts at the outbound write.
worker_sleep_skip_check(c) ==
    /\ pc[c] = "sleep"
    /\ IF repaint_counter[c] + 1 >= RepaintEvery
       THEN /\ repaint_counter' = [repaint_counter EXCEPT ![c] = 0]
            /\ repaint' = TRUE
       ELSE /\ repaint_counter' = [repaint_counter EXCEPT ![c] = @ + 1]
            /\ UNCHANGED repaint
    /\ pc' = [pc EXCEPT ![c] = "write"]
    /\ UNCHANGED <<websocket, client, clock, chans, hist>>

\* repaint_counter += 1;
\* if repaint_counter >= 3 { repaint_counter = 0; ctx.request_repaint(); }
\* thread::sleep(Duration::from_secs_f64(1.0 / 30.0));  then the next iteration
worker_sleep(c) ==
    /\ pc[c] = "sleep"
    /\ IF repaint_counter[c] + 1 >= RepaintEvery
       THEN /\ repaint_counter' = [repaint_counter EXCEPT ![c] = 0]
            /\ repaint' = TRUE
       ELSE /\ repaint_counter' = [repaint_counter EXCEPT ![c] = @ + 1]
            /\ UNCHANGED repaint
    /\ pc' = [pc EXCEPT ![c] = "check"]
    /\ UNCHANGED <<websocket, client, clock, chans, hist>>

\* ---------------------------------------------------------------- consumer
\* The handlers run on the UI thread, one at a time, inside update; worker
\* steps interleave with them freely, so each handler is an action.

\* The timer label, drawn in every update after the poll and after the
\* handlers of the widgets above it: the clock is read and the remaining
\* time shown, no field of the client is written.
render ==
    /\ timer_label' = remaining(client', now)
    /\ UNCHANGED now

\* Time passes between two frames drawn.
clock_tick ==
    /\ now < MaxNow
    /\ now' = now + 1
    /\ UNCHANGED <<websocket, client, worker, chans, repaint, hist, timer_label>>

\* connect, success path: the three channels are created empty and the
\* worker is spawned at the top of its loop.
connect(c) ==
    /\ pc' = [pc EXCEPT ![c] = "check"]

\* connect_button_clicked over a connect that spawns its worker before the
\* socket is established, so that a failed attempt leaves a worker behind.
connect_button_clicked_spawn_first(ok) ==
    /\ websocket = NoConn
    /\ \E c \in ConnIds :
         /\ pc[c] = "none"
         /\ \A d \in ConnIds : d < c => pc[d] # "none"
         /\ connect(c)
         /\ IF ok
            THEN /\ websocket' = c
                 /\ UNCHANGED client
            ELSE /\ client' = [client EXCEPT !.err_texts = Append(@, "connect failed")]
                 /\ UNCHANGED websocket
    /\ UNCHANGED <<repaint_counter, chans, repaint, hist>>
    /\ render

\* WordgamesClient::connect_button_clicked; the Connect button is enabled
\* only while websocket.is_none().
\* ok: whether tungstenite::connect and set_nonblocking succeed.
connect_button_clicked(ok) ==
    /\ websocket = NoConn
    /\ IF ok
       THEN \E c \in ConnIds :
              /\ pc[c] = "none"
              /\ \A d \in ConnIds : d < c => pc[d] # "none"
              /\ connect(c)
              /\ websocket' = c
              /\ UNCHANGED client
       ELSE /\ client' = [client EXCEPT !.err_texts = Append(@, "connect failed")]
            /\ UNCHANGED <<websocket, pc>>
    /\ UNCHANGED <<repaint_counter, chans, repaint, hist>>
    /\ render

\* disconnect_button_clicked that drops the handle without sending the
\* shutdown signal.
disconnect_button_clicked_no_signal ==
    /\ websocket # NoConn
    /\ recv_message' = [recv_message EXCEPT ![websocket] = <<>>]
    /\ websocket' = NoConn
    /\ client' = [client EXCEPT !.timer_finish_time = None,
                                !.word_box_guide = GuideInitial,
                                !.word_box = ""]
    /\ UNCHANGED <<worker, send_message, shutdown, repaint, hist>>
    /\ render

\* WordgamesClient::disconnect_button_clicked; the Disconnect button is
\* enabled only while websocket.is_some().  shutdown_tx.send(()) queues the
\* signal unless the worker has already dropped shutdown_rx; websocket = None
\* drops recv_message_rx with whatever it still holds.
disconnect_button_clicked ==
    /\ websocket # NoConn
    /\ shutdown' = [shutdown EXCEPT ![websocket] = IF Running(websocket) THEN @ + 1 ELSE @]
    /\ recv_message' = [recv_message EXCEPT ![websocket] = <<>>]
    /\ websocket' = NoConn
    /\ client' = [client EXCEPT !.timer_finish_time = None,
                                !.word_box_guide = GuideInitial,
                                !.word_box = ""]
    /\ UNCHANGED <<worker, send_message, repaint, hist>>
    /\ render

\* message_field_submitted over a channel that takes a text whether or not
\* the worker still holds the receiving end.
message_field_submitted_unchecked(message_to_send) ==
    /\ IF websocket # NoConn /\ message_to_send # ""
       THEN /\ send_message' = [send_message EXCEPT ![websocket] = Append(@, message_to_send)]
            /\ accepted' = [accepted EXCEPT ![websocket] = Append(@, message_to_send)]
            /\ UNCHANGED client
       ELSE UNCHANGED <<client, send_message, accepted>>
    /\ UNCHANGED <<websocket, worker, recv_message, shutdown, repaint, written, frames,
                   enqueued, polled, observed, post_writes, post_reads>>
    /\ render

\* WordgamesClient::message_field_submitted with the content of the text
\* field; sender.send fails iff the worker has dropped send_message_rx.
message_field_submitted(message_to_send) ==
    /\ IF websocket # NoConn /\ message_to_send # ""
       THEN IF Running(websocket)
            THEN /\ send_message' = [send_message EXCEPT ![websocket] = Append(@, message_to_send)]
                 /\ accepted' = [accepted EXCEPT ![websocket] = Append(@, message_to_send)]
                 /\ UNCHANGED client
            ELSE /\ client' = [client EXCEPT !.err_texts = Append(@, "sending on a closed channel")]
                 /\ UNCHANGED <<send_message, accepted>>
       ELSE UNCHANGED <<client, send_message, accepted>>
    /\ UNCHANGED <<websocket, worker, recv_message, shutdown, repaint, written, frames,
                   enqueued, polled, observed, post_writes, post_reads>>
    /\ render

\* WordgamesClient::close_err_button_clicked
close_err_button_clicked(idx) ==
    /\ idx \in 1..Len(client.err_texts)
    /\ client' = [client EXCEPT !.err_texts = RemoveAt(@, idx)]
    /\ UNCHANGED <<websocket, worker, chans, repaint, hist>>
    /\ render

\* update that takes the newest queued item instead of the oldest.
update_newest ==
    /\ repaint' = FALSE
    /\ IF websocket # NoConn /\ recv_message[websocket] # <<>>
       THEN LET q == recv_message[websocket]
            IN  /\ recv_message' = [recv_message EXCEPT ![websocket] = SubSeq(q, 1, Len(q) - 1)]
                /\ polled' = [polled EXCEPT ![websocket] = Append(@, q[Len(q)])]
                /\ client' = ws_result_received(client, q[Len(q)])
       ELSE UNCHANGED <<recv_message, polled, client>>
    /\ UNCHANGED <<websocket, worker, send_message, shutdown, accepted, written, frames,
                   enqueued, observed, post_writes, post_reads>>
    /\ render

\* WordgamesClient::update, the part before the widgets: one receiver.try_recv
\* per frame drawn.  Drawing the frame serves the pending repaint request.
update ==
    /\ repaint' = FALSE
    /\ IF websocket # NoConn /\ recv_message[websocket] # <<>>
       THEN /\ recv_message' = [recv_message EXCEPT ![websocket] = Tail(@)]
            /\ polled' = [polled EXCEPT ![websocket] = Append(@, Head(recv_message[websocket]))]
            /\ client' = ws_result_received(client, Head(recv_message[websocket]))
       ELSE UNCHANGED <<recv_message, polled, client>>
    /\ UNCHANGED <<websocket, worker, send_message, shutdown, accepted, written, frames,
                   enqueued, observed, post_writes, post_reads>>
    /\ render

\* ------------------------------------------------------------- environment
\* What the server, the socket and the user may do next, within the bounds.

\* Outcomes of socket.read while the server delivers at most maxFrames
\* frames, taken from F.
ReadOutcomes(maxFrames, F) ==
    {<<"WouldBlock">>, <<"Err">>}
    \cup (IF TotalLen(frames, MaxConn) < maxFrames
          THEN {<<"Ok", f>> : f \in F} ELSE {})

\* Contents of the text field on submit while at most maxSends texts are
\* accepted and the error list is kept short.
SubmitInputs(maxSends) ==
    {""} \cup
    (IF websocket = NoConn THEN Texts
     ELSE IF Running(websocket)
          THEN (IF TotalLen(accepted, MaxConn) < maxSends THEN Texts ELSE {})
          ELSE (IF Len(client.err_texts) < MaxErrs THEN Texts ELSE {}))

\* Outcomes of connecting while at most maxConn connections are opened and
\* the error list is kept short.
ConnectOutcomes(maxConn) ==
    (IF Cardinality({c \in ConnIds : Created(c)}) < maxConn THEN {TRUE} ELSE {})
    \cup (IF Len(client.err_texts) < MaxErrs THEN {FALSE} ELSE {})

Worker(c, maxFrames, F) ==
    \/ worker_check_shutdown(c)
    \/ \E ok \in BOOLEAN : worker_send(c, ok)
    \/ \E outcome \in ReadOutcomes(maxFrames, F) : worker_read(c, outcome)
    \/ worker_request_repaint(c)
    \/ worker_request_repaint_break(c)
    \/ worker_sleep(c)

Consumer(maxConn, maxSends) ==
    \/ \E ok \in ConnectOutcomes(maxConn) : connect_button_clicked(ok)
    \/ disconnect_button_clicked
    \/ \E message_to_send \in SubmitInputs(maxSends) : message_field_submitted(message_to_send)
    \/ \E idx \in 1..(MaxErrs + MaxConn) : close_err_button_clicked(idx)
    \/ update

\* The whole program: up to MaxConn connections, one after the other.
Next ==
    \/ \E c \in ConnIds : Worker(c, MaxFrames, WireFrames)
    \/ Consumer(MaxConn, MaxSends)

Spec == Init /\ [][Next]_vars

\* The program in a run where the user connects once: a single connection,
\* with more traffic on it.
SessionNext ==
    \/ \E c \in ConnIds : Worker(c, SessionFrames, WireFrames)
    \/ Consumer(1, SessionSends)

SessionSpec == Init /\ [][SessionNext]_vars

\* The scheduler runs every spawned thread again and again.
FairSessionSpec == SessionSpec /\ \A c \in ConnIds : WF_vars(Worker(c, SessionFrames, WireFrames))

\* The program in a run where the user connects, disconnects and connects
\* again and no text is submitted on a live connection; the scheduler runs every spawned thread again and again.
ReconnectNext ==
    \/ \E c \in ConnIds : Worker(c, MaxFrames, WireFrames)
    \/ Consumer(MaxConn, 0)

ReconnectSpec == Init /\ [][ReconnectNext]_vars

FairReconnectSpec == ReconnectSpec /\ \A c \in ConnIds : WF_vars(Worker(c, MaxFrames, WireFrames))

\* The program in a run where the user connects once and then leaves the
\* window alone: egui draws a frame only when a repaint has been requested,
\* and the requests pending when a frame is drawn are served by that frame.
NotifiedNext ==
    \/ \E c \in ConnIds : Worker(c, SessionFrames, WireFrames)
    \/ \E ok \in ConnectOutcomes(1) : connect_button_clicked(ok)
    \/ (repaint /\ update)

NotifiedSpec == Init /\ [][NotifiedNext]_vars

\* ws_result_received on every input.  The consumer holds connection 1 and
\* has polled `prior` (nothing, or one frame of Frames); the worker has just
\* queued one more item, any frame of Frames or a transport error, and
\* update polls it.
Results == {<<"Ok", f>> : f \in Frames} \cup {<<"Err", "write failed">>, <<"Err", "read failed">>}

RECURSIVE Fold(_, _)
Fold(self, results) ==
    IF results = <<>> THEN self
    ELSE Fold(ws_result_received(self, Head(results)), Tail(results))

ReducerInit ==
    \E prior \in {<<>>} \cup {<<(<<"Ok", f>>)>> : f \in Frames} :
    \E result \in Results :
        /\ websocket = 1
        /\ client = Fold(DefaultClient, prior)
        /\ pc = [c \in ConnIds |->
                   IF c # 1 THEN "none"
                   ELSE IF result[1] = "Ok" THEN "notify" ELSE "notify_break"]
        /\ repaint_counter = [c \in ConnIds |-> 0]
        /\ send_message = [c \in ConnIds |-> <<>>]
        /\ recv_message = [c \in ConnIds |-> IF c = 1 THEN <<result>> ELSE <<>>]
        /\ shutdown = [c \in ConnIds |-> 0]
        /\ repaint = TRUE
        /\ accepted = [c \in ConnIds |-> <<>>]
        /\ written = [c \in ConnIds |-> <<>>]
        /\ frames = [c \in ConnIds |-> IF c = 1 THEN OkItems(prior \o <<result>>) ELSE <<>>]
        /\ enqueued = [c \in ConnIds |-> IF c = 1 THEN prior \o <<result>> ELSE <<>>]
        /\ polled = [c \in ConnIds |-> IF c = 1 THEN prior ELSE <<>>]
        /\ observed = [c \in ConnIds |-> FALSE]
        /\ post_writes = [c \in ConnIds |-> 0]
        /\ post_reads = [c \in ConnIds |-> 0]
        /\ now = 0
        /\ timer_label = remaining(Fold(DefaultClient, prior), 0)

ReducerNext == update

ReducerSpec == ReducerInit /\ [][ReducerNext]_vars

\* The timer label over time.  The consumer holds connection 1 and has
\* polled `prior` (nothing, or one frame of Frames, which leaves every round
\* state the reducer can produce); at most one more frame waits on the
\* channel; frames are drawn while the clock runs.
TimerInit ==
    \E prior \in {<<>>} \cup {<<(<<"Ok", f>>)>> : f \in Frames} :
    \E queued \in {<<>>} \cup {<<(<<"Ok", f>>)>> : f \in WireFrames} :
        /\ websocket = 1
        /\ client = Fold(DefaultClient, prior)
        /\ pc = [c \in ConnIds |-> IF c = 1 THEN "sleep" ELSE "none"]
        /\ repaint_counter = [c \in ConnIds |-> 0]
        /\ send_message = [c \in ConnIds |-> <<>>]
        /\ recv_message = [c \in ConnIds |-> IF c = 1 THEN queued ELSE <<>>]
        /\ shutdown = [c \in ConnIds |-> 0]
        /\ repaint = TRUE
        /\ accepted = [c \in ConnIds |-> <<>>]
        /\ written = [c \in ConnIds |-> <<>>]
        /\ frames = [c \in ConnIds |-> IF c = 1 THEN OkItems(prior \o queued) ELSE <<>>]
        /\ enqueued = [c \in ConnIds |-> IF c = 1 THEN prior \o queued ELSE <<>>]
        /\ polled = [c \in ConnIds |-> IF c = 1 THEN prior ELSE <<>>]
        /\ observed = [c \in ConnIds |-> FALSE]
        /\ post_writes = [c \in ConnIds |-> 0]
        /\ post_reads = [c \in ConnIds |-> 0]
        /\ now = 0
        /\ timer_label = remaining(Fold(DefaultClient, prior), 0)

TimerNext ==
    \/ update
    \/ clock_tick

TimerSpec == TimerInit /\ [][TimerNext]_vars

TypeOK ==
    /\ websocket \in ConnIds \cup {NoConn}
    /\ \A c \in ConnIds :
         /\ pc[c] \in {"none", "check", "write", "read", "notify", "notify_break",
                       "sleep", "done"}
         /\ shutdown[c] \in 0..1
         /\ repaint_counter[c] \in 0..(RepaintEvery - 1)
    /\ now \in 0..MaxNow
    /\ timer_label \in {None} \cup {Some(d) : d \in -MaxNow..1000}

\* ------------------------------------------------------------------ claims

IsErr(item) == item[1] = "Err"

\* C1: on every connection the text frames written to the socket are a
\* prefix of the texts that send accepted, in the same order: nothing is
\* written twice, skipped or written out of order.
C1_WritesArePrefixOfAccepted ==
    \A c \in ConnIds : IsPrefix(written[c], accepted[c])

\* Two different texts were accepted and both have been written.
C1_Witness ==
    \E c \in ConnIds :
        /\ Len(written[c]) = 2
        /\ written[c][1] # written[c][2]

\* C2: on every connection the items update has polled are a prefix of the
\* items the worker queued, and the frames among them a prefix of the
\* frames read from the socket, in arrival order; while the connection is
\* held every frame read is queued and what was queued is exactly what was
\* polled followed by what still waits, so each poll took the oldest item.
C2_PolledArePrefixOfRead ==
    \A c \in ConnIds :
        /\ IsPrefix(polled[c], enqueued[c])
        /\ IsPrefix(OkItems(polled[c]), frames[c])
        /\ websocket = c =>
             /\ enqueued[c] = polled[c] \o recv_message[c]
             /\ OkItems(enqueued[c]) = frames[c]

\* Two different frames were read and both have been polled.
C2_Witness ==
    \E c \in ConnIds :
        /\ Len(polled[c]) = 2
        /\ polled[c][1] # polled[c][2]
        /\ OkItems(polled[c]) = frames[c]

\* C3: once the worker has observed the shutdown signal it makes no further
\* socket write, whatever is or gets queued on the send channel.
C3_NoWriteAfterShutdownObserved ==
    [][\A c \in ConnIds :
         observed[c] => /\ written'[c] = written[c]
                        /\ post_writes'[c] = post_writes[c]]_vars

\* The worker observed the signal while an accepted text was still unwritten.
C3_Witness ==
    \E c \in ConnIds :
        /\ observed[c]
        /\ Len(accepted[c]) > Len(written[c])

\* C4: when two texts were accepted on a connection and disconnect was
\* called before the worker wrote either, both are still written, in the
\* order submitted, by the time the worker has observed the signal and left:
\* no accepted text is silently dropped and it never happens that only one
\* of the two is written.  (The worker has observed the signal, so no write
\* failed; every write it made came after the disconnect.)
C4_AcceptedBeforeDisconnectAreWritten ==
    \A c \in ConnIds :
        ( /\ observed[c]
          /\ Len(accepted[c]) = 2
          /\ Len(written[c]) <= post_writes[c] )
        => written[c] = accepted[c]

\* A fatal I/O failure has ended the worker of c: a write failed, or a read
\* failed with something other than would-block.
FailedIo(c) == pc[c] = "notify_break" \/ (pc[c] = "done" /\ ~observed[c])

\* At most one transport error is ever queued and nothing is queued after it.
ErrIsSingleAndLast(c) ==
    /\ CountErr(enqueued[c]) <= 1
    /\ \A i \in 1..Len(enqueued[c]) : IsErr(enqueued[c][i]) => i = Len(enqueued[c])

Fails(c) == pc[c] \in {"write", "read"} /\ pc'[c] = "notify_break"

C6_WorkerExitsWithinOneIteration ==
    /\ [](\A c \in ConnIds : post_writes[c] <= 1 /\ post_reads[c] <= 1)
    /\ \A c \in ConnIds : (Disconnected(c) ~> pc[c] = "done")

\* The worker was past its shutdown check when disconnect was called, made
\* one write and one read, then observed the signal and exited.
C6_Witness ==
    \E c \in ConnIds :
        /\ pc[c] = "done"
        /\ observed[c]
        /\ post_writes[c] = 1
        /\ post_reads[c] = 1

\* C7: disconnect discards no inbound item: whatever was queued and not yet
\* polled when disconnect was called is still there to be polled, so at all
\* times what was queued is what was polled followed by what still waits.
C7_DisconnectKeepsQueuedItems ==
    \A c \in ConnIds : enqueued[c] = polled[c] \o recv_message[c]

\* C8: at most one worker exists at any time: connect is never performed
\* while the worker of an earlier connection has not yet exited.
C8_AtMostOneWorker ==
    Cardinality({c \in ConnIds : Running(c)}) <= 1

\* The round state the client displays: the phase told by word_box_guide,
\* the word and the deadline.
Phase(self) ==
    IF self.word_box_guide = GuideGuess THEN "Guessing"
    ELSE IF self.word_box_guide = GuideTimesUp THEN "Revealed"
    ELSE "Idle"

RoundState(self) == <<Phase(self), self.word_box, self.timer_finish_time>>

\* The event a polled item stands for.  A round frame whose timestamp text
\* is no timestamp is kept apart from the other malformed frames.
Event(result) ==
    IF IsErr(result) THEN <<"TransportError">>
    ELSE IF ~IsSome(from_str(result[2])) THEN <<"ProtocolNotice">>
    ELSE LET m == from_str(result[2])[1]
         IN  CASE m[1] = "ChatMessage" -> <<"ChatMessage">>
               [] m[1] = "FinishedGame" -> <<"GameFinished">>
               [] m[1] = "OngoingRoundInfo" ->
                    IF IsSome(ParseOffsetDateTime(m[3]))
                    THEN <<"RoundStarted", m[2], ParseOffsetDateTime(m[3])[1]>>
                    ELSE <<"MalformedTimestamp">>
               [] m[1] = "FinishedRoundInfo" ->
                    IF IsSome(ParseOffsetDateTime(m[3]))
                    THEN <<"RoundEnded", m[2], ParseOffsetDateTime(m[3])[1]>>
                    ELSE <<"MalformedTimestamp">>

\* update hands an item to ws_result_received in this step.
Polls == websocket # NoConn /\ polled'[websocket] # polled[websocket]
PolledEvent == Event(Head(recv_message[websocket]))

\* C9: whatever the round state, RoundStarted{word,deadline} gives
\* Guessing{word,deadline}, RoundEnded{answer,next} gives
\* Revealed{answer,next}, GameFinished gives Idle with no word and no
\* deadline, and a chat message, a frame that cannot be decoded and a
\* transport error leave the round state as it was and add one entry to the
\* message list or to the error list; every pair has a defined outcome.
C9_ReducerFollowsTransitionTable ==
    [][Polls =>
         LET ev == PolledEvent
         IN  /\ DOMAIN client' = DOMAIN client
             /\ ev[1] = "RoundStarted" =>
                  /\ RoundState(client') = <<"Guessing", ev[2], Some(ev[3])>>
                  /\ client'.messages = client.messages
                  /\ client'.err_texts = client.err_texts
             /\ ev[1] = "RoundEnded" =>
                  /\ RoundState(client') = <<"Revealed", ev[2], Some(ev[3])>>
                  /\ client'.messages = client.messages
                  /\ client'.err_texts = client.err_texts
             /\ ev[1] = "GameFinished" =>
                  /\ RoundState(client') = <<"Idle", "", None>>
                  /\ client'.messages = client.messages
                  /\ client'.err_texts = client.err_texts
             /\ ev[1] \in {"ChatMessage", "ProtocolNotice"} =>
                  /\ RoundState(client') = RoundState(client)
                  /\ Len(client'.messages) = Len(client.messages) + 1
                  /\ IsPrefix(client.messages, client'.messages)
                  /\ client'.err_texts = client.err_texts
             /\ ev[1] = "TransportError" =>
                  /\ RoundState(client') = RoundState(client)
                  /\ Len(client'.err_texts) = Len(client.err_texts) + 1
                  /\ IsPrefix(client.err_texts, client'.err_texts)
                  /\ client'.messages = client.messages]_vars

\* RoundEnded was the first item polled: it was processed while the round
\* state was Idle.
C9_Witness ==
    /\ websocket # NoConn
    /\ recv_message[websocket] = <<>>
    /\ Len(polled[websocket]) = 1
    /\ Event(polled[websocket][1])[1] = "RoundEnded"
    /\ RoundState(client) = <<"Revealed", "PEAR", Some(11)>>

\* C10: a round frame whose timestamp text is no timestamp adds a notice and
\* leaves the phase, the word and the deadline as they were.
C10_MalformedTimestampKeepsRoundState ==
    [][(Polls /\ PolledEvent[1] = "MalformedTimestamp") =>
         /\ RoundState(client') = RoundState(client)
         /\ Len(client'.messages) + Len(client'.err_texts)
              = Len(client.messages) + Len(client.err_texts) + 1]_vars

\* A frame the decoder is to answer with a notice: one that cannot be
\* decoded, or a round frame whose timestamp text is no timestamp.
Malformed(frame) == Event(<<"Ok", frame>>)[1] \in {"ProtocolNotice", "MalformedTimestamp"}

\* C11: every polled frame yields exactly one event, in the order polled:
\* a malformed frame adds exactly one notice to the message list and nothing
\* else, a chat message adds exactly its text, a round or game frame adds no
\* entry; and reading a frame, malformed or not, never ends the worker.
C11_OneEventPerFrame ==
    [][/\ (Polls /\ ~IsErr(Head(recv_message[websocket]))) =>
            LET frame == Head(recv_message[websocket])[2]
                ev == PolledEvent
            IN  /\ polled'[websocket] = Append(polled[websocket], <<"Ok", frame>>)
                /\ client'.err_texts = client.err_texts
                /\ Malformed(frame) =>
                     /\ Len(client'.messages) = Len(client.messages) + 1
                     /\ IsPrefix(client.messages, client'.messages)
                /\ ev[1] = "ChatMessage" =>
                     client'.messages = Append(client.messages, frame[2][2])
                /\ ev[1] \in {"RoundStarted", "RoundEnded", "GameFinished"} =>
                     client'.messages = client.messages
       /\ \A c \in ConnIds :
            frames'[c] # frames[c] => pc'[c] = "notify"]_vars

\* C12: the timer label drawn shows deadline minus now, read when the frame
\* is drawn, negative once now is past the deadline, and nothing for a
\* round state without deadline (Idle is one); between two events it never
\* grows; drawing it changes no field of the client.
C12_RemainingIsDeadlineMinusNow ==
    [][/\ now' = now =>
            /\ IsSome(client'.timer_finish_time) =>
                 timer_label' = Some(client'.timer_finish_time[1] - now')
            /\ ~IsSome(client'.timer_finish_time) => timer_label' = None
            /\ Phase(client') = "Idle" => timer_label' = None
            /\ ~Polls => client' = client
       /\ (client' = client /\ IsSome(timer_label) /\ IsSome(timer_label')) =>
            timer_label'[1] <= timer_label[1]
       /\ now' # now => client' = client]_vars

\* A frame was drawn after the deadline of the round had passed.
C12_Witness ==
    /\ Phase(client) = "Guessing"
    /\ IsSome(client.timer_finish_time)
    /\ now > client.timer_finish_time[1]
    /\ timer_label = Some(client.timer_finish_time[1] - now)
    /\ timer_label[1] < 0

IdleState == <<"Idle", "", None>>

\* C13: disconnect leaves the round state Idle with no word and no
\* deadline, whatever it was; so does a processed GameFinished; and an Idle
\* round state stays Idle through every step that does not process a
\* RoundStarted or RoundEnded event.
C13_IdleUntilRoundEvent ==
    [][/\ (websocket # NoConn /\ websocket' = NoConn) => RoundState(client') = IdleState
       /\ (Polls /\ PolledEvent[1] = "GameFinished") => RoundState(client') = IdleState
       /\ ( /\ RoundState(client) = IdleState
            /\ ~(Polls /\ PolledEvent[1] \in {"RoundStarted", "RoundEnded"}) )
          => RoundState(client') = IdleState]_vars

\* C14: a worker is spawned only by a successful connect, which spawns
\* exactly one, at the top of its loop with empty channels, hands its
\* Connection to the consumer and changes nothing else; a failed connect
\* leaves the consumer without Connection, spawns nothing, touches no
\* channel, keeps the round state and the messages and appends exactly one
\* entry to the error list.
C14_FailedConnectSpawnsNothing ==
    [][/\ \A c \in ConnIds :
            (pc[c] = "none" /\ pc'[c] # "none") =>
                /\ websocket = NoConn
                /\ websocket' = c
                /\ pc'[c] = "check"
                /\ \A d \in ConnIds \ {c} : pc'[d] = pc[d]
                /\ send_message'[c] = <<>> /\ recv_message'[c] = <<>> /\ shutdown'[c] = 0
                /\ client' = client
       /\ (websocket = NoConn /\ websocket' # NoConn) =>
            (pc[websocket'] = "none" /\ pc'[websocket'] = "check")
       /\ (websocket = NoConn /\ Len(client'.err_texts) > Len(client.err_texts)) =>
            /\ websocket' = NoConn
            /\ pc' = pc
            /\ chans' = chans
            /\ RoundState(client') = RoundState(client)
            /\ client'.messages = client.messages
            /\ Len(client'.err_texts) = Len(client.err_texts) + 1
            /\ IsPrefix(client.err_texts, client'.err_texts)]_vars

\* A connect failed, leaving one error entry and no worker, and the retry
\* succeeded and spawned the first worker.
C14_Witness ==
    /\ client.err_texts = <<"connect failed">>
    /\ websocket = 1
    /\ Running(1)
    /\ \A c \in ConnIds \ {1} : pc[c] = "none"

\* C15: a text is accepted only on the held connection while its worker
\* runs, and then exactly that text joins the send queue and no error
\* entry appears; once the worker has exited nothing is accepted, queued or
\* written any more and each submitted text adds one entry to the error
\* list.
C15_SendFailsOnlyAfterWorkerExit ==
    [][\A c \in ConnIds :
         /\ accepted'[c] # accepted[c] =>
              /\ websocket = c
              /\ Running(c)
              /\ client' = client
              /\ \E t \in Texts :
                   /\ accepted'[c] = Append(accepted[c], t)
                   /\ send_message'[c] = Append(send_message[c], t)
         /\ (websocket = c /\ Running(c) /\ ~Polls) =>
              Len(client'.err_texts) <= Len(client.err_texts)
         /\ pc[c] = "done" =>
              /\ accepted'[c] = accepted[c]
              /\ send_message'[c] = <<>>
              /\ written'[c] = written[c]
         /\ ( /\ websocket = c /\ pc[c] = "done" /\ ~Polls
              /\ Len(client'.err_texts) > Len(client.err_texts) ) =>
              /\ Len(client'.err_texts) = Len(client.err_texts) + 1
              /\ IsPrefix(client.err_texts, client'.err_texts)
              /\ websocket' = c
              /\ RoundState(client') = RoundState(client)
              /\ client'.messages = client.messages]_vars

\* A text was accepted while the worker ran; the worker then met a fatal
\* I/O failure and exited; a later text on the same connection was refused.
C15_Witness ==
    \E c \in ConnIds :
        /\ websocket = c
        /\ pc[c] = "done"
        /\ ~observed[c]
        /\ CountErr(enqueued[c]) = 1
        /\ Len(accepted[c]) >= 1
        /\ \E i \in 1..Len(client.err_texts) :
             client.err_texts[i] = "sending on a closed channel"

\* C16: whenever the worker queues an inbound item its next step is the
\* repaint request for that item, made whatever the repaint counter says,
\* with no socket write or read and nothing else queued before it, and the
\* worker leaves after a fatal I/O failure only through that request.
C16_EveryItemIsNotified ==
    [][\A c \in ConnIds :
         /\ enqueued'[c] # enqueued[c] => pc'[c] \in {"notify", "notify_break"}
         /\ (pc[c] \in {"notify", "notify_break"} /\ pc'[c] # pc[c]) =>
              /\ repaint'
              /\ written'[c] = written[c]
              /\ frames'[c] = frames[c]
              /\ enqueued'[c] = enqueued[c]
              /\ post_writes'[c] = post_writes[c]
              /\ post_reads'[c] = post_reads[c]
         /\ (pc[c] # "done" /\ pc'[c] = "done" /\ ~observed'[c]) =>
              pc[c] = "notify_break"]_vars

\* In its first iteration, before the repaint counter has reached its
\* threshold, the worker read a frame, queued it and requested the repaint.
C16_Witness ==
    \E c \in ConnIds :
        /\ pc[c] = "sleep"
        /\ repaint_counter[c] = 0
        /\ written[c] = <<>>
        /\ Len(enqueued[c]) = 1
        /\ recv_message[c] = enqueued[c]
        /\ repaint

\* C17: a tick with a held connection drains the inbound queue: every item
\* that waited when the tick began has been polled and folded into the
\* client, in order, when it ends.
C17_TickDrainsQueue ==
    [][Polls =>
         /\ polled'[websocket] = polled[websocket] \o recv_message[websocket]
         /\ client' = Fold(client, recv_message[websocket])]_vars

\* C18: when frames are drawn only on the worker's repaint requests, no
\* inbound item of the held connection is left unprocessed once the worker
\* has exited and the last request has been served: from then on no frame
\* is drawn, so what still waits is never processed.
C18_NothingLeftWhenNotificationsStop ==
    \A c \in ConnIds :
        (websocket = c /\ pc[c] = "done" /\ ~repaint) => recv_message[c] = <<>>

\* C19: every running worker belongs to the held connection or has the
\* shutdown signal waiting on its channel; the consumer gives up a handle
\* only by setting websocket to None, never by overwriting it, and not
\* without having queued the signal for a worker still running; under fair
\* scheduling every worker whose handle was given up exits.
C19_NoOrphanedWorker ==
    /\ [](\A c \in ConnIds : Running(c) => (websocket = c \/ shutdown[c] > 0))
    /\ [][\A c \in ConnIds :
            (websocket = c /\ websocket' # c) =>
                /\ websocket' = NoConn
                /\ Running(c) => shutdown'[c] > 0]_vars
    /\ \A c \in ConnIds : (Disconnected(c) ~> pc[c] = "done")

\* The second connection is held while the worker of the first, given up
\* with the signal queued, has not yet exited.
C19_Witness ==
    /\ websocket = 2
    /\ Running(2)
    /\ Running(1)
    /\ shutdown[1] > 0

\* C20: a worker whose connection the consumer does not hold queues
\* nothing, has nothing polled and changes neither the client nor any
\* queue, whatever it reads or fails on; what update polls is the oldest
\* item of the held connection's queue; and the frames queued on a
\* connection were all read from that connection's socket.
C20_SessionsAreIsolated ==
    /\ [](\A c \in ConnIds : IsPrefix(OkItems(enqueued[c]), frames[c]))
    /\ [][/\ \A c \in ConnIds :
              /\ websocket # c =>
                   /\ enqueued'[c] = enqueued[c]
                   /\ polled'[c] = polled[c]
                   /\ recv_message'[c] = <<>>
              /\ (websocket # c /\ (pc'[c] # pc[c] \/ frames'[c] # frames[c])) =>
                   /\ client' = client
                   /\ recv_message' = recv_message
                   /\ enqueued' = enqueued
           /\ Polls =>
                /\ websocket' = websocket
                /\ polled'[websocket]
                     = Append(polled[websocket], Head(recv_message[websocket]))
                /\ \A d \in ConnIds \ {websocket} : polled'[d] = polled[d]]_vars

\* After disconnect and a new connect the worker of the old connection read
\* a frame; nothing was queued and the client shows nothing of it.
C20_Witness ==
    /\ websocket = 2
    /\ Running(2)
    /\ frames[1] # <<>>
    /\ enqueued[1] = <<>>
    /\ post_reads[1] >= 1
    /\ client.messages = <<>>
    /\ RoundState(client) = IdleState

\* C21: under fair scheduling of the worker every accepted text is
\* eventually written unless the connection is disconnected or meets a fatal
\* I/O failure first; and an iteration writes at most one text: a write
\* happens only at the write step of the loop, takes exactly the oldest
\* queued text, and the write step is entered only from the shutdown check
\* that opens an iteration, so a backlog of n texts takes n iterations.
C21_AcceptedIsEventuallyWritten ==
    /\ \A c \in ConnIds : \A k \in 1..SessionSends :
         (Len(accepted[c]) >= k) ~>
             (Len(written[c]) >= k \/ Disconnected(c) \/ FailedIo(c))
    /\ [][\A c \in ConnIds :
            /\ written'[c] # written[c] =>
                 /\ pc[c] = "write"
                 /\ pc'[c] = "read"
                 /\ send_message[c] # <<>>
                 /\ written'[c] = Append(written[c], Head(send_message[c]))
                 /\ send_message'[c] = Tail(send_message[c])
            /\ (pc[c] # "write" /\ pc'[c] = "write") => pc[c] = "check"
            /\ (pc[c] # "check" /\ pc'[c] = "check") => pc[c] \in {"none", "sleep"}]_vars

\* Two texts were accepted on the held connection; the worker has just
\* written the first and the second still waits for the next iteration.
C21_Witness ==
    \E c \in ConnIds :
        /\ websocket = c
        /\ pc[c] = "read"
        /\ Len(accepted[c]) = 2
        /\ Len(written[c]) = 1
        /\ Len(send_message[c]) = 1

====
